---- MODULE Spec2Model ----
(***************************************************************************)
(* A model of the command sequencing and device protocol core of           *)
(* insteon-mqtt: CommandSeq (insteon_mqtt/CommandSeq.py), the Motion       *)
(* device (insteon_mqtt/device/Motion.py) and the Thermostat device        *)
(* (insteon_mqtt/device/Thermostat.py).                                    *)
(*                                                                         *)
(* The program is single threaded: every handler below runs to completion  *)
(* before the next one starts, so each is one atomic action.  `trace` is   *)
(* the history of what the program did (steps started, completion          *)
(* callbacks, messages handed to the transport, signals emitted, caller    *)
(* callbacks invoked, exceptions raised); the other variables are the      *)
(* program's own fields.                                                   *)
(***************************************************************************)
EXTENDS Integers, Sequences, FiniteSets, TLC

\* Python's None.
None == "None"

\* The largest number of steps appended to one CommandSeq.
MaxSteps == 3

\* The message handed to the CommandSeq constructor (msg=None by default).
CtorMsgs == {"sequence ok", None}

\* What a step may hand to its completion callback: (success, msg, data).
StepMsgs == {"oops", "step done"}
StepData == {None, "d1"}

VARIABLES
    calls,      \* CommandSeq.calls: the Entry objects not started yet
    total,      \* CommandSeq.total
    seq_msg,    \* CommandSeq.msg
    pc,         \* "none": no sequence constructed; "built": constructed,
                \* run() not called; "ran": run() called
    queue,      \* the (message, handler) pairs handed to send() that await
                \* their reply, oldest first
    trace,      \* history of events, oldest first
    model,      \* Motion: db.desc.model split at "-"; <<>> when db.desc is None
    meta,       \* the device database's metadata: namespace -> (key -> value)
    led_on,     \* Motion.led_on
    night_only, \* Motion.night_only
    on_only,    \* Motion.on_only
    now,        \* time.time(), in seconds
    battery_request_time    \* Motion._battery_request_time

devVars == <<model, meta, led_on, night_only, on_only, now, battery_request_time>>
vars == <<calls, total, seq_msg, pc, queue, trace,
          model, meta, led_on, night_only, on_only, now, battery_request_time>>

(***************************************************************************)
(* Events of the history.  Every event has the same shape.                 *)
(*   add      : add() was called for Entry `id` with the arguments `data`  *)
(*   start    : the sequence started Entry `id`; `data` is what the step   *)
(*              holds (function, arguments, completion callback)           *)
(*   original : the callback the handler of a message step was             *)
(*              constructed with was invoked with (ok, msg, data)          *)
(*   done     : step `id` invoked the completion callback it was given     *)
(*   late     : step `id`, which had completed, invoked its completion     *)
(*              callback once more                                         *)
(*   callback : the caller's on_done was invoked with (ok, msg, data)      *)
(*   call     : the method `msg` of the device was called with `data`      *)
(*   send     : Device.send(data, handler), the handler of kind `msg`      *)
(*   reply    : the device answered the request at the head of the queue   *)
(*              (msg: extended, with the reply's bytes as data; ack, nak   *)
(*              or timeout, with the request as data)                      *)
(*   signal   : the signal `msg` was emitted with payload `ok`             *)
(*   raise    : the exception `msg` left the running method                *)
(*   ended    : a handler constructed with on_done=None invoked its        *)
(*              completion callback with (ok, msg, data)                   *)
(*   tick     : the clock advanced by `data` seconds                       *)
(*   routed   : the message `data` was passed on to Base.handle_broadcast  *)
(***************************************************************************)
Event(ev, id, ok, msg, data) ==
    [ev |-> ev, id |-> id, ok |-> ok, msg |-> msg, data |-> data]

\* The positions of the events of one kind.
Where(tr, ev) == {i \in 1..Len(tr) : tr[i].ev = ev}

\* The events of one kind, oldest first.
RECURSIVE Only(_, _)
Only(tr, ev) ==
    IF tr = <<>> THEN <<>>
    ELSE IF Head(tr).ev = ev THEN <<Head(tr)>> \o Only(Tail(tr), ev)
    ELSE Only(Tail(tr), ev)

(***************************************************************************)
(* CommandSeq                                                              *)
(***************************************************************************)

\* Entry.from_func: a function step.  `id` is the Entry object's identity:
\* its position in the order of the add()/add_msg() calls.
\* `on_done` is the completion callback of the entry's handler (None: the
\* entry has no handler).
from_func(id, func, args, kwargs) ==
    [id |-> id, kind |-> "func", func |-> func, args |-> args, kwargs |-> kwargs,
     on_done |-> None]

\* Entry.from_msg: a (message, handler) step; handler_on_done is the
\* completion callback the handler was constructed with.
from_msg(id, handler_on_done) ==
    [id |-> id, kind |-> "msg", func |-> None, args |-> <<>>, kwargs |-> <<>>,
     on_done |-> handler_on_done]

\* The Entry that on_done takes from a non-empty list: calls.pop(0).
PopLast(c) == [entry |-> c[Len(c)], rest |-> SubSeq(c, 1, Len(c) - 1)]
Pop(c) == [entry |-> Head(c), rest |-> Tail(c)]

(***************************************************************************)
(* The collaborators of the device: Python values, the util helpers, the   *)
(* device database's metadata, the message and handler constructors and    *)
(* Device.send.                                                            *)
(***************************************************************************)
\* util.bit_get(value, bit)
bit_get(value, bit) == (value \div (2 ^ bit)) % 2

\* util.bit_set(value, bit, is_one)
bit_set(value, bit, is_one) ==
    IF is_one THEN value + (1 - bit_get(value, bit)) * (2 ^ bit)
    ELSE value - bit_get(value, bit) * (2 ^ bit)

\* What util.input_bool returns for a value that is no boolean (None).
NoBool == -1

\* util.input_bool(flags, key): 1 (True), 0 (False) or NoBool (None).
input_bool(flags, key) ==
    IF flags[key] \in {"true", "1", "on", "yes"} THEN 1
    ELSE IF flags[key] \in {"false", "0", "off", "no"} THEN 0
    ELSE NoBool

\* bytes(list) raises ValueError unless every element is in range(0, 256).
bytes_ok(list) == \A i \in 1..Len(list) : list[i] \in 0..255

\* isinstance(db.get_meta(ns), dict)
has_meta(m, ns) == ns \in DOMAIN m

\* db.set_meta(ns, d): the namespace's mapping is replaced by d.
set_meta(m, ns, d) ==
    [x \in (DOMAIN m) \cup {ns} |-> IF x = ns THEN d ELSE m[x]]

\* dict.update
dict_update(d, new) ==
    [k \in (DOMAIN d) \cup (DOMAIN new) |-> IF k \in DOMAIN new THEN new[k] ELSE d[k]]

\* Msg.OutExtended.direct(addr, cmd1, cmd2, data)
OutExtended(cmd1, cmd2, data) == [cmd1 |-> cmd1, cmd2 |-> cmd2, data |-> data]

\* handler.ExtendedCmdResponse(msg, callback, on_done): after the ACK of the
\* send, the next extended direct message of the device goes to callback.
ExtendedCmdResponse(callback, target) ==
    [kind |-> "ExtendedCmdResponse", callback |-> callback, text |-> None,
     on_done |-> target]

\* handler.StandardCmd(msg, callback, on_done) with
\* callback = generic_ack_callback(text).
StandardCmd(text, target) ==
    [kind |-> "StandardCmd", callback |-> "generic_ack_callback", text |-> text,
     on_done |-> target]

\* Device.send(msg, handler): the pair waits in the device's queue; the
\* replies go to the oldest pair.
send(msg, handler, c, tr, q) ==
    /\ trace' = Append(tr, Event("send", 0, TRUE, handler.kind, msg))
    /\ queue' = Append(q, [msg |-> msg, handler |-> handler])
    /\ calls' = c

\* An exception leaves the running method: nothing after it is executed.
raise(name, c, tr, q) ==
    /\ trace' = Append(tr, Event("raise", 0, FALSE, name, None))
    /\ queue' = q
    /\ calls' = c

(***************************************************************************)
(* Motion                                                                  *)
(***************************************************************************)

\* Motion.BATTERY_TIME: 4 days, in seconds.
BATTERY_TIME == 345600

\* db.desc is not None and db.desc.model.split("-")[0] == "2842"
is_2842 == model # <<>> /\ model[1] = "2842"

\* A plausible slip in the getter: the stored time is not looked up.
battery_voltage_time_unread(m) == 0

\* Motion.battery_voltage_time (getter), in seconds
battery_voltage_time(m) ==
    IF has_meta(m, "Motion") /\ "battery_voltage_time" \in DOMAIN m["Motion"]
    THEN m["Motion"]["battery_voltage_time"]
    ELSE 0

\* A plausible slip in the setter: the new mapping is stored without being
\* merged into the existing one.
set_battery_voltage_time_replace(m, val) ==
    set_meta(m, "Motion", [k \in {"battery_voltage_time"} |-> val])

\* Motion.battery_voltage_time (setter)
set_battery_voltage_time(m, val) ==
    LET new == [k \in {"battery_voltage_time"} |-> val]
    IN  IF has_meta(m, "Motion")
        THEN set_meta(m, "Motion", dict_update(m["Motion"], new))
        ELSE set_meta(m, "Motion", new)

\* Motion.battery_low_voltage (getter), in millivolts
DefaultLowVoltage == IF is_2842 THEN 7000 ELSE 1850
battery_low_voltage(m) ==
    IF has_meta(m, "Motion") /\ "battery_low_voltage" \in DOMAIN m["Motion"]
    THEN m["Motion"]["battery_low_voltage"]
    ELSE DefaultLowVoltage

\* Motion.battery_low_voltage (setter)
set_battery_low_voltage(m, val) ==
    LET new == [k \in {"battery_low_voltage"} |-> val]
    IN  IF has_meta(m, "Motion")
        THEN set_meta(m, "Motion", dict_update(m["Motion"], new))
        ELSE set_meta(m, "Motion", new)

\* 14 data bytes D1..D14, all 0 but those given.
Data14(given) == [i \in 1..14 |-> IF i \in DOMAIN given THEN given[i] ELSE 0]

\* A plausible slip in the flag byte: night_only and on_only are written as
\* they are.
flags_value_no_invert(led, night, on) ==
    bit_set(bit_set(bit_set(0, 3, led = 1), 2, night = 1), 1, on = 1)

\* The flag byte Motion._change_flags builds: bit 3 led_on, bit 2 and bit 1
\* night_only and on_only inverted.
flags_value(led, night, on) ==
    bit_set(bit_set(bit_set(0, 3, led = 1), 2, ~(night = 1)), 1, ~(on = 1))

RECURSIVE on_done(_, _, _, _, _, _)

\* Calling an on_done callback: the caller's own ("caller"), the
\* CommandSeq.on_done of the sequence that started the step ("advance"),
\* the one a handler holds when it was constructed with on_done=None
\* ("none": it does nothing, and the history records the call as "ended"),
\* or the one the handler of an add_msg() step was constructed with
\* ("original": the history records the call under that name).
complete(target, success, msg, data, c, tr, q) ==
    IF target = "advance"
    THEN on_done(success, msg, data, c, tr, q)
    ELSE /\ trace' = Append(tr, Event(CASE target = "none" -> "ended"
                                        [] target = "original" -> "original"
                                        [] OTHER -> "callback",
                                      0, success, msg, data))
         /\ queue' = q
         /\ calls' = c

\* Motion._get_ext_flags(on_done)
get_ext_flags(target, c, tr, q) ==
    send(OutExtended(46, 0, Data14(<<>>)),
         ExtendedCmdResponse("handle_ext_flags", target), c, tr, q)

\* Motion._change_flags(flags, on_done).  It runs as the second step of
\* update_flags, in the handler that has just stored the flags read.
change_flags(flags, target, c, tr, q) ==
    LET led == IF "led_on" \in DOMAIN flags
               THEN input_bool(flags, "led_on") ELSE led_on'
        night == IF "night_only" \in DOMAIN flags
                 THEN input_bool(flags, "night_only") ELSE night_only'
        on == IF "on_only" \in DOMAIN flags
              THEN input_bool(flags, "on_only") ELSE on_only'
        data == <<0, 5, flags_value(led, night, on)>> \o [i \in 1..11 |-> 0]
    IN  IF led = NoBool
        THEN complete(target, FALSE, "Invalid led on.", None, c, tr, q)
        ELSE IF night = NoBool
        THEN complete(target, FALSE, "Invalid night only.", None, c, tr, q)
        ELSE IF on = NoBool
        THEN complete(target, FALSE, "Invalid on only.", None, c, tr, q)
        ELSE IF ~bytes_ok(data)
        THEN raise("ValueError", c, tr, q)
        ELSE send(OutExtended(46, 0, data), StandardCmd("Flags updated.", target),
                  c, tr, q)

\* handler.StandardCmd(msg, callback, on_done, num_retry=3)
StandardCmdTo(callback, target) ==
    [kind |-> "StandardCmd", callback |-> callback, text |-> None,
     on_done |-> target]

\* Thermostat.enable_broadcast(on_done), with the history and the queue as
\* the caller has left them.
enable_broadcast_to(target, c, tr, q) ==
    send(OutExtended(46, 0, Data14(<<0, 8>>)),
         StandardCmdTo("handle_generic_ack", target), c, tr, q)

\* What a started step holds: the function (None for a message step), the
\* positional and the keyword arguments it was called with, and the
\* completion callback it has to invoke.
Running(entry, target) ==
    [func |-> entry.func, args |-> entry.args, kwargs |-> entry.kwargs,
     on_done |-> target]

\* The methods of the devices that a sequence runs as the device runs them.
DeviceFuncs == {"_get_ext_flags", "_change_flags", "enable_broadcast"}

\* A plausible slip in Entry.run: the handler of a message step is handed to
\* protocol.send with the completion callback it was constructed with.
Entry_run_keep_handler(entry, c, tr, q) ==
    /\ trace' = Append(tr, Event("start", entry.id, TRUE, entry.kind,
                                 Running(entry, IF entry.kind = "msg" THEN entry.on_done
                                                ELSE "advance")))
    /\ queue' = q
    /\ calls' = c

\* Entry.run, with self.calls = c once the entry is popped.  A message step
\* installs on_done as the handler's callback and hands the pair to
\* protocol.send; a function step calls func(*args, on_done=on_done,
\* **kwargs), which raises TypeError when kwargs holds an on_done too.  The
\* steps of a free-standing sequence are then running and hold the callback
\* they were given; the methods of the devices are run as the device runs
\* them.
Entry_run(entry, c, tr, q) ==
    LET tr1 == Append(tr, Event("start", entry.id, TRUE, entry.kind,
                                Running(entry, "advance")))
    IN  IF entry.kind = "func" /\ "on_done" \in DOMAIN entry.kwargs
        THEN raise("TypeError", c, tr, q)
        ELSE CASE entry.func = "_get_ext_flags" ->
                     get_ext_flags("advance", c, tr1, q)
               [] entry.func = "_change_flags" ->
                     change_flags(entry.args[1], "advance", c, tr1, q)
               [] entry.func = "enable_broadcast" ->
                     enable_broadcast_to("advance", c, tr1, q)
               [] OTHER ->
                     /\ trace' = tr1
                     /\ queue' = q
                     /\ calls' = c

\* The arguments CommandSeq.on_done passes to the constructor's callback
\* (seq_msg' is self.msg of the sequence the running handler belongs to).
TerminalArgsStepMsg(success, msg, data) == <<success, msg, data>>
TerminalArgsSeqMsg(success, msg, data) == <<success, seq_msg', data>>
TerminalArgs(success, msg, data) ==
    IF ~success THEN <<success, msg, data>> ELSE <<success, seq_msg', data>>

\* CommandSeq._on_done: the callback given to the constructor.
terminal_on_done(args, c, tr, q) ==
    /\ trace' = Append(tr, Event("callback", 0, args[1], args[2], args[3]))
    /\ queue' = q
    /\ calls' = c

\* A plausible slip in on_done: the failure branch does not end the call
\* (`if` in place of `elif`), so a failure is reported and the sequence
\* goes on.
on_done_fallthrough(success, msg, data, c, tr, q) ==
    LET tr1 == IF ~success
               THEN Append(tr, Event("callback", 0, success, msg, data))
               ELSE tr
    IN  IF c = <<>>
        THEN terminal_on_done(<<success, seq_msg', data>>, c, tr1, q)
        ELSE Entry_run(Pop(c).entry, Pop(c).rest, tr1, q)

\* CommandSeq.on_done(success, msg, data), called with self.calls = c and
\* with the history `tr` and the send queue `q` as the running handler has
\* left them.
on_done(success, msg, data, c, tr, q) ==
    IF ~success
    THEN terminal_on_done(TerminalArgs(success, msg, data), c, tr, q)
    ELSE IF c = <<>>
    THEN terminal_on_done(TerminalArgs(success, msg, data), c, tr, q)
    ELSE Entry_run(Pop(c).entry, Pop(c).rest, tr, q)

\* del kwargs[key], when the key is there
without(kwargs, key) == [k \in (DOMAIN kwargs) \ {key} |-> kwargs[k]]

\* The arguments add() is called with after func: the positional ones and
\* the keyword ones, with and without an on_done ("given").
AddArgs ==
    {[args |-> <<>>, kwargs |-> <<>>],
     [args |-> <<1, "modem">>,
      kwargs |-> [k \in {"on_done", "refresh"} |->
                     IF k = "on_done" THEN "given" ELSE "False"]]}

\* A plausible slip in add: the on_done of the keyword arguments is left in
\* place.
add_keep_on_done(a) ==
    /\ pc = "built"
    /\ total < MaxSteps
    /\ calls' = Append(calls, from_func(total + 1, "step", a.args, a.kwargs))
    /\ total' = total + 1
    /\ trace' = Append(trace, Event("add", total + 1, TRUE, "step", a))
    /\ UNCHANGED <<seq_msg, pc, queue, devVars>>

\* CommandSeq.add(func, *args, **kwargs), a = [args, kwargs]
add(a) ==
    /\ pc = "built"
    /\ total < MaxSteps
    /\ calls' = Append(calls, from_func(total + 1, "step", a.args,
                                        without(a.kwargs, "on_done")))
    /\ total' = total + 1
    /\ trace' = Append(trace, Event("add", total + 1, TRUE, "step", a))
    /\ UNCHANGED <<seq_msg, pc, queue, devVars>>

\* CommandSeq.add_msg(msg, handler); the handler was constructed with a
\* completion callback of its own ("original").
add_msg ==
    /\ pc = "built"
    /\ total < MaxSteps
    /\ calls' = Append(calls, from_msg(total + 1, "original"))
    /\ total' = total + 1
    /\ UNCHANGED <<seq_msg, pc, queue, trace, devVars>>

\* CommandSeq.run()
run ==
    /\ pc = "built"
    /\ pc' = "ran"
    /\ UNCHANGED <<total, seq_msg, devVars>>
    /\ on_done(TRUE, None, None, calls, trace, queue)

\* The steps that were started and have not completed.
Started(tr) == {tr[i].id : i \in Where(tr, "start")}
Completed(tr) == {tr[i].id : i \in Where(tr, "done")}
Outstanding == Started(trace) \ Completed(trace)

\* What the started step `id` holds.
RunningOf(id) == trace[CHOOSE i \in Where(trace, "start") : trace[i].id = id].data

\* A running step invokes, once, the completion callback it was given.  The
\* methods of the devices complete through their handlers instead.
StepDoneWith(msgs, datas) ==
    \E id \in Outstanding, success \in BOOLEAN, msg \in msgs, data \in datas :
        /\ RunningOf(id).func \notin DeviceFuncs
        /\ UNCHANGED <<total, seq_msg, pc, devVars>>
        /\ complete(RunningOf(id).on_done, success, msg, data, calls,
                    Append(trace, Event("done", id, success, msg, data)), queue)

StepDone == StepDoneWith(StepMsgs, StepData)

(***************************************************************************)
(* Motion: the commands and the replies of the device                      *)
(***************************************************************************)

\* The largest number of commands given to the device in one behaviour.
MaxCmds == 2

\* db.desc.model split at "-"; <<>> when db.desc is None.
Models == {<<>>, <<"2842", "222">>, <<"2844", "222">>}

\* The keyword arguments of update_flags.
FlagNames == {"led_on", "night_only", "on_only"}
RawBools == {"on", "off", "bogus"}
FlagArgs == UNION {[S -> RawBools] : S \in SUBSET FlagNames}

\* The timeout argument of _set_timeout: an integer, or a value
\* util.input_integer does not accept.
TimeoutValues == {-5, 29, 30, 95, 2405, 7709, 7710, 14400, 20000}
TimeoutArgs == {[valid |-> TRUE, value |-> t] : t \in TimeoutValues}
                   \cup {[valid |-> FALSE, value |-> 0]}

\* The voltage argument of set_low_battery_voltage, in millivolts; not
\* given: voltage=None.
VoltageArgs == {[given |-> TRUE, value |-> v] : v \in {1860, 6900}}
                   \cup {[given |-> FALSE, value |-> 0]}

\* <<D6, D12>> (the flags, the battery voltage) of a get-flags reply: every
\* flag byte _change_flags can write and one with the undefined bits set,
\* and the voltages on both sides of the thresholds.
FlagBytes == {0, 2, 4, 6, 8, 10, 12, 14, 255}
RawVolts == {9, 70, 71, 133, 134}
Replies == {<<d6, 133>> : d6 \in FlagBytes} \cup {<<14, raw>> : raw \in RawVolts}

NakReasons == {"ID not in DB", "PRE NAK"}

\* The commands given so far.
Cmds == Cardinality(Where(trace, "call"))
Called(name, arg) == Append(trace, Event("call", 0, TRUE, name, arg))

\* The parameters of CommandSeq.__init__ after self.
CommandSeq_params == <<"protocol", "msg", "on_done">>

\* Python binds a call's arguments before the body runs: it raises TypeError
\* when more positional arguments are given than there are parameters or
\* when a keyword names no parameter left to fill.
call_binds(params, npos, keywords) ==
    /\ npos <= Len(params)
    /\ \A k \in keywords : \E i \in (npos + 1)..Len(params) : params[i] = k

\* Motion.update_flags(on_done, **kwargs):
\*   seq = CommandSeq(self, "Motion Set Flags Success", on_done,
\*                    name="UpdateFlags")
\*   seq.add(self._get_ext_flags); seq.add(self._change_flags, kwargs)
\*   seq.run()
update_flags(kwargs) ==
    /\ Cmds < MaxCmds
    /\ UNCHANGED devVars
    /\ IF ~call_binds(CommandSeq_params, 3, {"name"})
       THEN /\ raise("TypeError", calls, Called("update_flags", kwargs), queue)
            /\ UNCHANGED <<total, seq_msg, pc>>
       ELSE /\ seq_msg' = "Motion Set Flags Success"
            /\ total' = 2
            /\ pc' = "ran"
            /\ on_done(TRUE, None, None,
                       <<from_func(1, "_get_ext_flags", <<>>, <<>>),
                         from_func(2, "_change_flags", <<kwargs>>, <<>>)>>,
                       Called("update_flags", kwargs), queue)

\* The byte _set_timeout computes for D3.
Clamp(x, lo, hi) == IF x < lo THEN lo ELSE IF x > hi THEN hi ELSE x
timeout_byte(timeout) ==
    IF is_2842 THEN (Clamp(timeout, 30, 14400) \div 30) - 1
    ELSE Clamp(timeout, 10, 2400) \div 10

\* Motion._set_timeout(on_done, timeout=...)
set_timeout(arg) ==
    LET tr == Called("_set_timeout", arg)
        data == <<0, 3, timeout_byte(arg.value)>> \o [i \in 1..11 |-> 0]
    IN  /\ Cmds < MaxCmds
        /\ UNCHANGED <<total, seq_msg, pc, devVars>>
        /\ IF ~arg.valid
           THEN complete("caller", FALSE, "Invalid timeout.", None, calls, tr, queue)
           ELSE IF ~bytes_ok(data)
           THEN raise("ValueError", calls, tr, queue)
           ELSE send(OutExtended(46, 0, data),
                     StandardCmd("Motion timeout updated.", "caller"),
                     calls, tr, queue)

\* The command get_battery_voltage: Motion._get_ext_flags(on_done)
get_battery_voltage ==
    /\ Cmds < MaxCmds
    /\ UNCHANGED <<total, seq_msg, pc, devVars>>
    /\ get_ext_flags("caller", calls, Called("get_battery_voltage", None), queue)

\* A plausible slip in set_low_battery_voltage: the voltage is stored and
\* success reported without the test for None.
set_low_battery_voltage_unchecked(arg) ==
    /\ Cmds < MaxCmds
    /\ UNCHANGED <<total, seq_msg, pc, model, led_on, night_only, on_only, now,
                   battery_request_time>>
    /\ meta' = set_battery_low_voltage(meta, arg.value)
    /\ complete("caller", TRUE, "Low voltage set.", None, calls,
                Called("set_low_battery_voltage", arg), queue)

\* Motion.set_low_battery_voltage(on_done, voltage)
set_low_battery_voltage(arg) ==
    /\ Cmds < MaxCmds
    /\ UNCHANGED <<total, seq_msg, pc, model, led_on, night_only, on_only, now,
                   battery_request_time>>
    /\ IF arg.given
       THEN /\ meta' = set_battery_low_voltage(meta, arg.value)
            /\ complete("caller", TRUE, "Low voltage set.", None, calls,
                        Called("set_low_battery_voltage", arg), queue)
       ELSE /\ meta' = meta
            /\ complete("caller", FALSE, "Low voltage not specified.", None, calls,
                        Called("set_low_battery_voltage", arg), queue)

\* round(num / den, 2) of Python, in hundredths: to the nearest hundredth,
\* an exact half to the even one.
round2(num, den) ==
    LET q == (100 * num) \div den
        r == (100 * num) % den
    IN  IF 2 * r < den THEN q
        ELSE IF 2 * r > den THEN q + 1
        ELSE IF q % 2 = 0 THEN q ELSE q + 1

\* The battery voltage handle_ext_flags reads from D12, in millivolts.
batt_volt(raw) == IF is_2842 THEN raw * 100 ELSE round2(raw, 72) * 10

\* The payload of signal_low_battery.
is_low_strict(volts, m) == volts < battery_low_voltage(m)
is_low(volts, m) == volts <= battery_low_voltage(m)

\* The flags handle_ext_flags reads from D6: <<led_on, night_only, on_only>>.
read_flags(d6) == <<bit_get(d6, 3), bit_get(d6, 2), bit_get(d6, 1)>>

\* Motion.handle_ext_flags(msg, on_done)
handle_ext_flags(data, target, c, tr, q) ==
    /\ led_on' = read_flags(data[6])[1]
    /\ night_only' = read_flags(data[6])[2]
    /\ on_only' = read_flags(data[6])[3]
    /\ meta' = set_battery_voltage_time(meta, now)
    /\ complete(target, TRUE, "Operation complete", data[6], c,
                Append(tr, Event("signal", 0, is_low(batt_volt(data[12]), meta'),
                                 "low_battery", None)),
                q)

\* The device answers the oldest request, a get-flags request, with an
\* extended message: handler.ExtendedCmdResponse passes it to its callback.
ReplyExtendedOf(replies) ==
    \E r \in replies :
        LET data == Data14((6 :> r[1]) @@ (12 :> r[2]))
        IN  /\ queue # <<>>
            /\ Head(queue).handler.kind = "ExtendedCmdResponse"
            /\ UNCHANGED <<total, seq_msg, pc, model, now, battery_request_time>>
            /\ handle_ext_flags(data, Head(queue).handler.on_done, calls,
                                Append(trace, Event("reply", 0, TRUE, "extended", data)),
                                Tail(queue))

ReplyExtended == ReplyExtendedOf(Replies)

\* The device ACKs the oldest request, a StandardCmd one: the handler calls
\* generic_ack_callback(text), which calls on_done(True, text, None).
ReplyAck ==
    /\ queue # <<>>
    /\ Head(queue).handler.kind = "StandardCmd"
    /\ UNCHANGED <<total, seq_msg, pc, devVars>>
    /\ complete(Head(queue).handler.on_done, TRUE, Head(queue).handler.text, None,
                calls, Append(trace, Event("reply", 0, TRUE, "ack", Head(queue).msg)),
                Tail(queue))

\* The device NAKs the oldest request, a StandardCmd one: the handler calls
\* on_done(False, reason, None).
ReplyNak ==
    \E reason \in NakReasons :
        /\ queue # <<>>
        /\ Head(queue).handler.kind = "StandardCmd"
        /\ UNCHANGED <<total, seq_msg, pc, devVars>>
        /\ complete(Head(queue).handler.on_done, FALSE, reason, None,
                    calls, Append(trace, Event("reply", 0, FALSE, "nak", Head(queue).msg)),
                    Tail(queue))

\* No reply arrives and the handler's retries are used up: it calls
\* on_done(False, ..., None).
ReplyTimeout ==
    /\ queue # <<>>
    /\ UNCHANGED <<total, seq_msg, pc, devVars>>
    /\ complete(Head(queue).handler.on_done, FALSE, "Message handler timed out", None,
                calls, Append(trace, Event("reply", 0, FALSE, "timeout", Head(queue).msg)),
                Tail(queue))

\* Motion.__init__: no sequence exists; the flags have their defaults.
MotionInit ==
    /\ calls = <<>>
    /\ total = 0
    /\ seq_msg = None
    /\ pc = "none"
    /\ queue = <<>>
    /\ trace = <<>>
    /\ model \in Models
    /\ meta = <<>>
    /\ led_on = 1
    /\ night_only = 0
    /\ on_only = 0
    /\ now = BATTERY_TIME
    /\ battery_request_time = 0

\* The flags and the battery: update_flags, the battery commands and the
\* replies to the get-flags requests.  (No StandardCmd request is ever
\* queued by these, so no ACK or NAK of one can arrive.)
MotionNext ==
    \/ \E kwargs \in FlagArgs : update_flags(kwargs)
    \/ get_battery_voltage
    \/ \E arg \in VoltageArgs : set_low_battery_voltage(arg)
    \/ ReplyExtended
    \/ ReplyTimeout

MotionSpec == MotionInit /\ [][MotionNext]_vars

\* The timeout: _set_timeout and the replies to its request.
TimeoutNext ==
    \/ \E arg \in TimeoutArgs : set_timeout(arg)
    \/ ReplyAck
    \/ ReplyNak
    \/ ReplyTimeout

TimeoutSpec == MotionInit /\ [][TimeoutNext]_vars

\* The flags argument of _change_flags: every combination of the three
\* flags, each flag alone (also with a value that is no boolean), and none.
FlagCalls ==
    [FlagNames -> {"on", "off"}]
        \cup UNION {[{n} -> {"on", "bogus"}] : n \in FlagNames}
        \cup {<<>>}

\* Motion._change_flags(flags, on_done) called for itself, with the flags
\* stored as the last get-flags reply has left them.
call_change_flags(flags) ==
    /\ Cmds < MaxCmds
    /\ UNCHANGED <<total, seq_msg, pc, devVars>>
    /\ change_flags(flags, "caller", calls, Called("_change_flags", flags), queue)

\* The replies that set the stored flags: D6 with one, two and all of the
\* bits set.
ReplyFlags == ReplyExtendedOf({<<d6, 133>> : d6 \in {4, 10, 255}})

\* _change_flags and _get_ext_flags, each called for itself, and the
\* replies to their requests.
FlagsNext ==
    \/ \E flags \in FlagCalls : call_change_flags(flags)
    \/ get_battery_voltage
    \/ ReplyFlags
    \/ ReplyAck

\* Motion.__init__ of a device whose description is not known: the model
\* plays no part in the flags.
FlagsInit == MotionInit /\ model = <<>>

FlagsSpec == FlagsInit /\ [][FlagsNext]_vars

(***************************************************************************)
(* Motion: the automatic battery request                                   *)
(***************************************************************************)

\* The largest number of times the device wakes or its send queue is popped,
\* and of clock advances, in one behaviour.
MaxWakes == 3
MaxTicks == 2

\* The seconds that pass between two events: both sides of the 300 s and of
\* the BATTERY_TIME limits.
TickSteps == {2, 299, BATTERY_TIME - 1}

\* The test of auto_check_battery, for a device whose last request was made
\* at last_request.
battery_due(last_request) ==
    /\ model # <<>>
    /\ model[1] \in {"2842", "2844"}
    /\ battery_voltage_time(meta) + BATTERY_TIME <= now
    /\ last_request + 300 <= now

\* The automatic request and its handler: _get_ext_flags(None).
BatteryRequest ==
    [msg |-> OutExtended(46, 0, Data14(<<>>)),
     handler |-> ExtendedCmdResponse("handle_ext_flags", "none")]

\* auto_check_battery where the request is made with the time `stamp` in
\* _battery_request_time and `stored` is written to it.  With `nested`, the
\* send queue is popped while the request is being sent, which calls
\* auto_check_battery once more before the first call returns.
auto_check_battery_with(stamp, stored, nested, c, tr, q) ==
    IF battery_due(battery_request_time)
    THEN LET tr1 == Append(tr, Event("send", 0, TRUE, BatteryRequest.handler.kind,
                                     BatteryRequest.msg))
             q1 == Append(q, BatteryRequest)
             tr2 == Append(tr1, Event("call", 0, TRUE, "_pop_send_queue", "nested"))
         IN  /\ battery_request_time' = stored
             /\ IF ~nested
                THEN get_ext_flags("none", c, tr, q)
                ELSE IF battery_due(stamp)
                THEN get_ext_flags("none", c, tr2, q1)
                ELSE /\ trace' = tr2
                     /\ queue' = q1
                     /\ calls' = c
    ELSE /\ battery_request_time' = battery_request_time
         /\ trace' = tr
         /\ queue' = q
         /\ calls' = c

\* A plausible slip in auto_check_battery: the time of the request is not
\* recorded.
auto_check_battery_no_stamp(nested, c, tr, q) ==
    auto_check_battery_with(battery_request_time, battery_request_time, nested, c, tr, q)

\* A plausible slip in auto_check_battery: the time of the request is
\* recorded after the request is sent.
auto_check_battery_stamp_late(nested, c, tr, q) ==
    auto_check_battery_with(battery_request_time, now, nested, c, tr, q)

\* Motion.auto_check_battery(): _battery_request_time is set before
\* _get_ext_flags(None) is called.
auto_check_battery(nested, c, tr, q) ==
    auto_check_battery_with(now, now, nested, c, tr, q)

\* Motion.awake(on_done): auto_check_battery(), then the base class's awake,
\* which acts on none of the fields modelled here.
awake ==
    \E nested \in BOOLEAN :
        /\ Cmds < MaxWakes
        /\ UNCHANGED <<total, seq_msg, pc, model, meta, led_on, night_only, on_only, now>>
        /\ auto_check_battery(nested, calls, Called("awake", None), queue)

\* Motion._pop_send_queue(): auto_check_battery(), then the base class's
\* _pop_send_queue.
pop_send_queue ==
    \E nested \in BOOLEAN :
        /\ Cmds < MaxWakes
        /\ UNCHANGED <<total, seq_msg, pc, model, meta, led_on, night_only, on_only, now>>
        /\ auto_check_battery(nested, calls, Called("_pop_send_queue", None), queue)

\* time.time() advances.
Tick ==
    \E d \in TickSteps :
        /\ Cardinality(Where(trace, "tick")) < MaxTicks
        /\ now' = now + d
        /\ trace' = Append(trace, Event("tick", 0, TRUE, None, d))
        /\ UNCHANGED <<calls, total, seq_msg, pc, queue, model, meta, led_on,
                       night_only, on_only, battery_request_time>>

\* The reply to an automatic request: a good battery.
ReplyBattery == ReplyExtendedOf({<<14, 134>>})

BatteryNext ==
    \/ awake
    \/ pop_send_queue
    \/ Tick
    \/ ReplyBattery

BatterySpec == MotionInit /\ [][BatteryNext]_vars

(***************************************************************************)
(* Thermostat                                                              *)
(***************************************************************************)

\* The largest number of commands and broadcasts the thermostat is given in
\* one behaviour.
MaxThermoCmds == 1

\* Thermostat.FARENHEIT, Thermostat.CELSIUS
FARENHEIT == 0
CELSIUS == 1

\* The enumerations: value -> member name.
Groups == (1 :> "COOLING") @@ (2 :> "HEATING") @@ (3 :> "HUMID_HIGH")
              @@ (4 :> "HUMID_LOW") @@ (239 :> "BROADCAST")
Fan == (0 :> "auto") @@ (1 :> "on")
Mode == (0 :> "off") @@ (1 :> "auto") @@ (2 :> "heat") @@ (3 :> "cool")
            @@ (4 :> "program")
ModeCommands == (9 :> "off") @@ (4 :> "heat") @@ (5 :> "cool") @@ (6 :> "auto")
                    @@ (10 :> "program")
FanCommands == (7 :> "on") @@ (8 :> "auto")

\* A number that need not be whole: <<n, d>> is n / d, with d > 0.
Frac(n, d) == <<n, d>>

\* Thermostat.units (getter)
units(m) ==
    IF has_meta(m, "thermostat") /\ "units" \in DOMAIN m["thermostat"]
    THEN m["thermostat"]["units"]
    ELSE FARENHEIT

\* Thermostat.units (setter)
set_units(m, val) ==
    IF val \in {FARENHEIT, CELSIUS}
    THEN set_meta(m, "thermostat", [k \in {"units"} |-> val])
    ELSE m

\* signal_<name>.emit(self, payload)
Signal(name, payload) == Event("signal", 0, TRUE, name, payload)

\* (val - 32) * 5 / 9 when the units are Fahrenheit: device units to Celsius.
to_celsius_no_offset(x, u) ==
    IF u = FARENHEIT THEN Frac(x[1] * 5, x[2] * 9) ELSE x
to_celsius(x, u) ==
    IF u = FARENHEIT THEN Frac((x[1] - 32 * x[2]) * 5, x[2] * 9) ELSE x

\* (temp_c * 9 / 5) + 32 when the units are Fahrenheit: Celsius to device
\* units.
to_device(x, u) ==
    IF u = FARENHEIT THEN Frac(x[1] * 9 + 32 * 5 * x[2], 5 * x[2]) ELSE x

\* temp = 0 if temp < 0 else temp; temp = 127 if temp > 127 else temp
limit(x) ==
    IF x[1] < 0 THEN Frac(0, 1)
    ELSE IF x[1] > 127 * x[2] THEN Frac(127, 1)
    ELSE x

\* int(temp * 2): the fraction is dropped (temp is not negative here).
setpoint_cmd2_nearest(x) == (4 * x[1] + x[2]) \div (2 * x[2])
setpoint_cmd2(x) == (2 * x[1]) \div x[2]

\* Thermostat.get_status(on_done)
get_status ==
    /\ Cmds < MaxThermoCmds
    /\ UNCHANGED <<total, seq_msg, pc, devVars>>
    /\ send(OutExtended(46, 2, Data14(<<>>)),
            ExtendedCmdResponse("handle_status", "caller"),
            calls, Called("get_status", None), queue)

\* A plausible slip in process_status_flag: heating is tested first.
process_status_flag_heating_first(flag) ==
    <<Signal("status_change",
             IF bit_get(flag, 1) = 1 THEN "heating"
             ELSE IF bit_get(flag, 0) = 1 THEN "cooling"
             ELSE "off"),
      Signal("hold_change", bit_get(flag, 4) = 1),
      Signal("energy_change", bit_get(flag, 2) = 1)>>

\* Thermostat.process_status_flag(flag): the signals it emits (it also sets
\* the units, see handle_status).
process_status_flag(flag) ==
    <<Signal("status_change",
             IF bit_get(flag, 0) = 1 THEN "cooling"
             ELSE IF bit_get(flag, 1) = 1 THEN "heating"
             ELSE "off"),
      Signal("hold_change", bit_get(flag, 4) = 1),
      Signal("energy_change", bit_get(flag, 2) = 1)>>

\* Thermostat.set_fan_mode_state(mode)
set_fan_mode_state(mode) ==
    IF mode \in DOMAIN Fan THEN <<Signal("fan_mode_change", Fan[mode])>> ELSE <<>>

\* The unit handle_status converts D7 and D12 with: the one
\* process_status_flag has just stored.
status_units_stale(m, flag) == units(m)
status_units(m, flag) == units(set_units(m, bit_get(flag, 3)))

\* Thermostat.handle_status(msg, on_done)
handle_status(data, target, c, tr, q) ==
    LET flag == data[11]
        u == status_units(meta, flag)
        mode_nibble == data[6] \div 16
        signals ==
            process_status_flag(flag)
            \o set_fan_mode_state(data[6] % 2)
            \o (IF mode_nibble \in DOMAIN Mode
                THEN <<Signal("mode_change", Mode[mode_nibble])>> ELSE <<>>)
            \o <<Signal("cool_sp_change", to_celsius(Frac(data[7], 1), u)),
                 Signal("ambient_humid_change", data[8]),
                 Signal("ambient_temp_change", Frac(data[9] * 256 + data[10], 10)),
                 Signal("heat_sp_change", to_celsius(Frac(data[12], 1), u))>>
    IN  /\ meta' = set_units(meta, bit_get(flag, 3))
        /\ complete(target, TRUE, "Status recevied", None, c, tr \o signals, q)

\* <<D6, D11>> of a status reply: the modes (5 is no Mode), both fans, and
\* the status flags; D7 = 72, D8 = 40, D9..D10 = 0x00DC and D12 = 68.
StatusReplies == {49, 0, 32, 80} \X {9, 1, 2, 3, 0, 20}
StatusData(r) ==
    Data14((6 :> r[1]) @@ (7 :> 72) @@ (8 :> 40) @@ (9 :> 0) @@ (10 :> 220)
               @@ (11 :> r[2]) @@ (12 :> 68))

\* The thermostat answers the oldest request, a status request, with an
\* extended message: handler.ExtendedCmdResponse passes it to handle_status.
ReplyStatus ==
    \E r \in StatusReplies :
        /\ queue # <<>>
        /\ Head(queue).handler.callback = "handle_status"
        /\ UNCHANGED <<total, seq_msg, pc, model, led_on, night_only, on_only, now,
                       battery_request_time>>
        /\ handle_status(StatusData(r), Head(queue).handler.on_done, calls,
                         Append(trace, Event("reply", 0, TRUE, "status", StatusData(r))),
                         Tail(queue))

\* Thermostat.enable_broadcast(on_done)
enable_broadcast_no_callback ==
    /\ Cmds < MaxThermoCmds
    /\ UNCHANGED <<total, seq_msg, pc, devVars>>
    /\ send(OutExtended(46, 0, Data14(<<0, 8>>)),
            StandardCmdTo("handle_generic_ack", "none"),
            calls, Called("enable_broadcast", None), queue)
enable_broadcast ==
    /\ Cmds < MaxThermoCmds
    /\ UNCHANGED <<total, seq_msg, pc, devVars>>
    /\ enable_broadcast_to("caller", calls, Called("enable_broadcast", None), queue)

\* Thermostat.mode_command(mode_member)
mode_command(mode_member) ==
    /\ Cmds < MaxThermoCmds
    /\ UNCHANGED <<total, seq_msg, pc, devVars>>
    /\ send(OutExtended(107, mode_member, Data14(<<>>)),
            StandardCmdTo("handle_mode_command", "none"),
            calls, Called("mode_command", mode_member), queue)

\* Thermostat.fan_command(fan_member)
fan_command(fan_member) ==
    /\ Cmds < MaxThermoCmds
    /\ UNCHANGED <<total, seq_msg, pc, devVars>>
    /\ send(OutExtended(107, fan_member, Data14(<<>>)),
            StandardCmdTo("handle_fan_command", "none"),
            calls, Called("fan_command", fan_member), queue)

\* The temp_c argument of the setpoint commands, in tenths of a degree.
SetpointTenths == {-50, 5, 203, 215, 2000}

\* Thermostat.heat_sp_command(temp_c), temp_c = tenths / 10
heat_sp_command(tenths) ==
    /\ Cmds < MaxThermoCmds
    /\ UNCHANGED <<total, seq_msg, pc, devVars>>
    /\ send(OutExtended(109,
                        setpoint_cmd2(limit(to_device(Frac(tenths, 10), units(meta)))),
                        Data14(<<>>)),
            StandardCmdTo("handle_heat_sp_command", "none"),
            calls, Called("heat_sp_command", tenths), queue)

\* Thermostat.cool_sp_command(temp_c), temp_c = tenths / 10
cool_sp_command(tenths) ==
    /\ Cmds < MaxThermoCmds
    /\ UNCHANGED <<total, seq_msg, pc, devVars>>
    /\ send(OutExtended(108,
                        setpoint_cmd2(limit(to_device(Frac(tenths, 10), units(meta)))),
                        Data14(<<>>)),
            StandardCmdTo("handle_cool_sp_command", "none"),
            calls, Called("cool_sp_command", tenths), queue)

\* Thermostat.handle_generic_ack(msg, on_done); msg = [nak, cmd1, cmd2],
\* nak the reason of a direct NAK and None for a direct ACK.
handle_generic_ack(msg, target, c, tr, q) ==
    IF msg.nak # None
    THEN complete(target, FALSE, <<"Thermostat command NAK. ", msg.nak>>, None, c, tr, q)
    ELSE complete(target, TRUE, "Thermostat generic ack recevied", None, c, tr, q)

\* Thermostat.handle_mode_command(msg, on_done)
handle_mode_command(msg, target, c, tr, q) ==
    IF msg.nak # None
    THEN complete(target, FALSE, <<"Thermostat mode command NAK. ", msg.nak>>, None,
                  c, tr, q)
    ELSE IF msg.cmd1 = 107
    THEN IF msg.cmd2 \in DOMAIN ModeCommands
         THEN complete(target, TRUE, "Thermostat recevied mode command", None, c,
                       Append(tr, Signal("mode_change", ModeCommands[msg.cmd2])), q)
         ELSE raise("ValueError", c, tr, q)
    ELSE complete(target, FALSE, "Wrong direct ack received", None, c, tr, q)

\* Thermostat.handle_fan_command(msg, on_done)
handle_fan_command(msg, target, c, tr, q) ==
    IF msg.nak # None
    THEN complete(target, FALSE, <<"Thermostat fan command NAK. ", msg.nak>>, None,
                  c, tr, q)
    ELSE IF msg.cmd1 = 107
    THEN IF msg.cmd2 \in DOMAIN FanCommands
         THEN complete(target, TRUE, "Thermostat recevied fan mode command", None, c,
                       Append(tr, Signal("fan_mode_change", FanCommands[msg.cmd2])), q)
         ELSE raise("ValueError", c, tr, q)
    ELSE complete(target, FALSE, "Wrong direct ack received", None, c, tr, q)

\* Thermostat.handle_heat_sp_command(msg, on_done)
handle_heat_sp_command(msg, target, c, tr, q) ==
    IF msg.cmd1 = 109
    THEN complete(target, TRUE, "Thermostat recevied heat setpoint command", None, c,
                  Append(tr, Signal("heat_sp_change",
                                    to_celsius(Frac(msg.cmd2, 2), units(meta)))), q)
    ELSE complete(target, FALSE, "Wrong direct ack received", None, c, tr, q)

\* Thermostat.handle_cool_sp_command(msg, on_done)
handle_cool_sp_command(msg, target, c, tr, q) ==
    IF msg.cmd1 = 108
    THEN complete(target, TRUE, "Thermostat recevied cool setpoint command", None, c,
                  Append(tr, Signal("cool_sp_change",
                                    to_celsius(Frac(msg.cmd2, 2), units(meta)))), q)
    ELSE complete(target, FALSE, "Wrong direct ack received", None, c, tr, q)

\* The callbacks of the thermostat's StandardCmd handlers.
AckCallbacks == {"handle_generic_ack", "handle_mode_command", "handle_fan_command",
                 "handle_heat_sp_command", "handle_cool_sp_command"}

\* What a direct ACK carries: the cmd1 and cmd2 sent ("echo"), another cmd1
\* or another cmd2.
AckKinds == {"echo", "cmd1", "cmd2"}
AckOf(sent, kind) ==
    [nak |-> None,
     cmd1 |-> IF kind = "cmd1" THEN 17 ELSE sent.cmd1,
     cmd2 |-> IF kind = "cmd2" THEN 85 ELSE sent.cmd2]

\* The thermostat ACKs the oldest request, a StandardCmd one: the handler
\* passes the ACK and its on_done to the callback it was given.
ThermoAck ==
    \E kind \in AckKinds :
        /\ queue # <<>>
        /\ Head(queue).handler.kind = "StandardCmd"
        /\ Head(queue).handler.callback \in AckCallbacks
        /\ UNCHANGED <<total, seq_msg, pc, devVars>>
        /\ LET msg == AckOf(Head(queue).msg, kind)
               target == Head(queue).handler.on_done
               cb == Head(queue).handler.callback
               tr == Append(trace, Event("reply", 0, TRUE, "ack", msg))
           IN  CASE cb = "handle_generic_ack" ->
                       handle_generic_ack(msg, target, calls, tr, Tail(queue))
                 [] cb = "handle_mode_command" ->
                       handle_mode_command(msg, target, calls, tr, Tail(queue))
                 [] cb = "handle_fan_command" ->
                       handle_fan_command(msg, target, calls, tr, Tail(queue))
                 [] cb = "handle_heat_sp_command" ->
                       handle_heat_sp_command(msg, target, calls, tr, Tail(queue))
                 [] cb = "handle_cool_sp_command" ->
                       handle_cool_sp_command(msg, target, calls, tr, Tail(queue))

\* The thermostat NAKs the oldest request, a StandardCmd one: the handler
\* calls its on_done(False, reason, None); the callback is not called.
ThermoNak ==
    \E reason \in NakReasons :
        /\ queue # <<>>
        /\ Head(queue).handler.kind = "StandardCmd"
        /\ UNCHANGED <<total, seq_msg, pc, devVars>>
        /\ complete(Head(queue).handler.on_done, FALSE, reason, None, calls,
                    Append(trace, Event("reply", 0, FALSE, "nak",
                                        [nak |-> reason, cmd1 |-> Head(queue).msg.cmd1,
                                         cmd2 |-> Head(queue).msg.cmd2])),
                    Tail(queue))

\* The cmd1 and the group of the broadcasts received: on, off and another
\* command; the heating and cooling groups, another group and no group.
BroadcastCmds == {17, 19, 18}
BroadcastGroups == {1, 2, 3, 239, 9}

\* Thermostat.handle_broadcast(msg)
handle_broadcast_fallthrough(cmd1, group) ==
    LET tr == Called("handle_broadcast", <<cmd1, group>>)
        routed == Event("routed", 0, TRUE, None, <<cmd1, group>>)
    IN  /\ Cmds < MaxThermoCmds
        /\ UNCHANGED <<calls, total, seq_msg, pc, queue, devVars>>
        /\ trace' =
             IF cmd1 \in {17, 19}
             THEN IF group \notin DOMAIN Groups THEN tr
                  ELSE IF group \in {2, 1}
                  THEN tr \o <<Signal("status_change",
                                      IF cmd1 = 19 THEN "OFF" ELSE Groups[group]),
                               routed>>
                  ELSE Append(tr, routed)
             ELSE Append(tr, routed)
handle_broadcast(cmd1, group) ==
    LET tr == Called("handle_broadcast", <<cmd1, group>>)
        routed == Event("routed", 0, TRUE, None, <<cmd1, group>>)
    IN  /\ Cmds < MaxThermoCmds
        /\ UNCHANGED <<calls, total, seq_msg, pc, queue, devVars>>
        /\ trace' =
             IF cmd1 \in {17, 19}
             THEN IF group \notin DOMAIN Groups THEN tr
                  ELSE IF group \in {2, 1}
                  THEN Append(tr, Signal("status_change",
                                         IF cmd1 = 19 THEN "OFF" ELSE Groups[group]))
                  ELSE Append(tr, routed)
             ELSE Append(tr, routed)

\* The metadata of the device database as loaded at start: nothing, the
\* units stored by an earlier run, and a thermostat namespace that also holds
\* an entry this program does not write.
SavedMeta ==
    {<<>>,
     [ns \in {"thermostat"} |-> [k \in {"units"} |-> FARENHEIT]],
     [ns \in {"thermostat"} |-> [k \in {"units"} |-> CELSIUS]],
     [ns \in {"thermostat", "Motion"} |->
         IF ns = "thermostat"
         THEN [k \in {"units", "other"} |-> IF k = "units" THEN FARENHEIT ELSE 7]
         ELSE [k \in {"battery_voltage_time"} |-> 0]]}

\* Thermostat.__init__
ThermostatInit ==
    /\ calls = <<>>
    /\ total = 0
    /\ seq_msg = None
    /\ pc = "none"
    /\ queue = <<>>
    /\ trace = <<>>
    /\ model = <<>>
    /\ meta \in SavedMeta
    /\ led_on = 1
    /\ night_only = 0
    /\ on_only = 0
    /\ now = 0
    /\ battery_request_time = 0

ThermostatNext ==
    \/ get_status
    \/ enable_broadcast
    \/ \E m \in DOMAIN ModeCommands : mode_command(m)
    \/ \E f \in DOMAIN FanCommands : fan_command(f)
    \/ \E t \in SetpointTenths : heat_sp_command(t)
    \/ \E t \in SetpointTenths : cool_sp_command(t)
    \/ \E cmd1 \in BroadcastCmds, group \in BroadcastGroups : handle_broadcast(cmd1, group)
    \/ ReplyStatus
    \/ ThermoAck
    \/ ThermoNak
    \/ ReplyTimeout

ThermostatSpec == ThermostatInit /\ [][ThermostatNext]_vars

\* The values of Thermostat.Groups in the order of their declaration, the
\* order `for group_map in Thermostat.Groups` takes them in.
GroupValues == <<1, 2, 3, 4, 239>>

\* The keyword arguments of the db_add_* steps: refresh=False.
NoRefresh == [k \in {"refresh"} |-> "False"]

\* A plausible slip in pair: enable_broadcast is added before the
\* controller links.
PairEntriesBroadcastEarly ==
    <<from_func(1, "refresh", <<>>, <<>>),
      from_func(2, "db_add_resp_of", <<1, "modem", 1>>, NoRefresh),
      from_func(3, "enable_broadcast", <<>>, <<>>)>>
    \o [k \in 1..5 |->
           from_func(3 + k, "db_add_ctrl_of",
                     <<GroupValues[k], "modem", GroupValues[k]>>, NoRefresh)]

\* The steps pair adds, in the order of its seq.add calls.
PairEntries ==
    <<from_func(1, "refresh", <<>>, <<>>),
      from_func(2, "db_add_resp_of", <<1, "modem", 1>>, NoRefresh)>>
    \o [k \in 1..5 |->
           from_func(2 + k, "db_add_ctrl_of",
                     <<GroupValues[k], "modem", GroupValues[k]>>, NoRefresh)]
    \o <<from_func(8, "enable_broadcast", <<>>, <<>>)>>

\* Thermostat.pair(on_done): the sequence is built and run.  refresh,
\* db_add_resp_of and db_add_ctrl_of are steps of the base class: each is
\* started with the sequence's on_done and invokes it once (BaseStepDone).
pair ==
    /\ pc = "none"
    /\ seq_msg' = "Thermostat paired"
    /\ total' = Len(PairEntries)
    /\ pc' = "ran"
    /\ UNCHANGED devVars
    /\ on_done(TRUE, None, None, PairEntries, Called("pair", None), queue)

\* A step of the base class ends: with or without data.
BaseStepDone == StepDoneWith({"step done"}, StepData)

PairNext ==
    \/ pair
    \/ BaseStepDone
    \/ ThermoAck
    \/ ThermoNak
    \/ ReplyTimeout

PairSpec == ThermostatInit /\ [][PairNext]_vars

\* The setpoint round trip: one setpoint command, for every half degree from
\* 0 to 50, given to a thermostat that has done nothing yet, and its ACK.
HalfDegrees == 0..100
RoundTripNext ==
    \/ \E k \in HalfDegrees : trace = <<>> /\ heat_sp_command(5 * k)
    \/ \E k \in HalfDegrees : trace = <<>> /\ cool_sp_command(5 * k)
    \/ ThermoAck

RoundTripSpec == ThermostatInit /\ [][RoundTripNext]_vars

\* CommandSeq.__init__
Init ==
    /\ calls = <<>>
    /\ total = 0
    /\ seq_msg \in CtorMsgs
    /\ pc = "built"
    /\ queue = <<>>
    /\ trace = <<>>
    /\ model = <<>>
    /\ meta = <<>>
    /\ led_on = 1
    /\ night_only = 0
    /\ on_only = 0
    /\ now = 0
    /\ battery_request_time = 0

Next == (\E a \in AddArgs : add(a)) \/ add_msg \/ run \/ StepDone

Spec == Init /\ [][Next]_vars

\* The largest number of times a step that has completed invokes its
\* completion callback again in one behaviour.
MaxLate == 1

\* A step that has completed still holds the callback it was given and
\* invokes it once more: a result reported twice, or a late result after
\* the one already reported.
LateDone ==
    \E id \in Completed(trace), success \in BOOLEAN :
        /\ Cardinality(Where(trace, "late")) < MaxLate
        /\ RunningOf(id).func \notin DeviceFuncs
        /\ UNCHANGED <<total, seq_msg, pc, devVars>>
        /\ complete(RunningOf(id).on_done, success, "late", None, calls,
                    Append(trace, Event("late", id, success, "late", None)), queue)

LateNext == (\E a \in AddArgs : add(a)) \/ add_msg \/ run \/ StepDone \/ LateDone

\* CommandSeq with steps that may report more than once.
LateSpec == Init /\ [][LateNext]_vars

\* The same program when every started step does invoke its completion
\* callback (the handlers' contract: a reply, a NAK or an exhausted retry
\* budget all end in on_done).
LiveSpec == Init /\ [][Next]_vars /\ WF_vars(StepDone)

(***************************************************************************)
(* Claims about CommandSeq                                                 *)
(***************************************************************************)
Callbacks == Only(trace, "callback")
Dones == Only(trace, "done")
Starts == Only(trace, "start")
AllOk(evs) == \A i \in 1..Len(evs) : evs[i].ok
FailedIds == {Dones[i].id : i \in {j \in 1..Len(Dones) : ~Dones[j].ok}}
Min(S) == CHOOSE x \in S : \A y \in S : x <= y

\* C1: once run() has been called on a sequence whose started steps each
\* complete once, the constructor's callback is invoked, and it is never
\* invoked a second time, whichever step fails.
C1_TerminalExactlyOnce ==
    /\ [](Len(Callbacks) <= 1)
    /\ (pc = "ran") ~> (Len(Callbacks) = 1)

C1_Witness ==
    /\ total >= 2
    /\ \E i \in 1..Len(Dones) : ~Dones[i].ok /\ Dones[i].id < total
    /\ Len(Callbacks) = 1

\* C2: when step k has completed with success=false, no step with a larger
\* index has been started.
C2_NoStepAfterFailure ==
    \A i \in 1..Len(Dones) :
        ~Dones[i].ok => \A j \in 1..Len(Starts) : Starts[j].id <= Dones[i].id

C2_Witness ==
    /\ total = 3
    /\ Len(Dones) = 2 /\ Dones[1].ok /\ ~Dones[2].ok /\ Dones[2].id = 2
    /\ Len(Starts) = 2
    /\ Len(Callbacks) = 1

\* C3: when a step completes with (false, m, d) the constructor's callback
\* receives (false, m, d): the step's message and data, not the
\* constructor's message.
C3_FailureVerbatim ==
    \A i \in 1..Len(Dones) :
        ~Dones[i].ok =>
            Callbacks = <<Event("callback", 0, FALSE, Dones[i].msg, Dones[i].data)>>

C3_Witness ==
    /\ seq_msg = "sequence ok"
    /\ Len(Dones) = 2 /\ ~Dones[2].ok /\ Dones[2].msg = "oops" /\ Dones[2].data = "d1"
    /\ Callbacks = <<Event("callback", 0, FALSE, "oops", "d1")>>

\* C4: the success flag given to the constructor's callback is the AND of
\* the success flags of the steps that were started, and the started steps
\* are the prefix of the sequence up to and including the first step that
\* reported false.
C4_SuccessIsAndOfPrefix ==
    Len(Callbacks) >= 1 =>
        /\ Callbacks[1].ok = AllOk(Dones)
        /\ Started(trace) = Completed(trace)
        /\ Started(trace) = 1..(IF FailedIds = {} THEN total ELSE Min(FailedIds))

C4_Witness ==
    /\ total = 3
    /\ Len(Callbacks) = 1 /\ ~Callbacks[1].ok
    /\ Started(trace) = {1, 2}

\* C5: when every step has succeeded the constructor's callback receives
\* (true, the constructor's message, the last step's data); a sequence with
\* no steps gets (true, the constructor's message, None) from run() and
\* starts nothing.
C5_SuccessResult ==
    (pc = "ran" /\ Len(Dones) = total /\ AllOk(Dones)) =>
        /\ Callbacks = <<Event("callback", 0, TRUE, seq_msg,
                               IF total = 0 THEN None ELSE Dones[total].data)>>
        /\ (total = 0 => Starts = <<>>)

C5_Witness ==
    /\ pc = "ran" /\ total = 2 /\ Len(Dones) = 2 /\ AllOk(Dones)
    /\ seq_msg = "sequence ok"
    /\ Dones[1].data = None /\ Dones[2].data = "d1"
    /\ Callbacks = <<Event("callback", 0, TRUE, "sequence ok", "d1")>>

\* C6: steps are started in the order they were appended, a step is started
\* only after the one before it has invoked its completion callback, and at
\* most one step is running at any time.
C6_InOrderOneAtATime ==
    /\ \A k \in 1..Len(Starts) : Starts[k].id = k
    /\ \A p \in Where(trace, "start") : \A q \in Where(trace, "start") :
           p < q => \E r \in p..q : trace[r].ev = "done" /\ trace[r].id = trace[p].id
    /\ Cardinality(Outstanding) <= 1

C6_Witness ==
    /\ total = 3
    /\ Len(Starts) = 3
    /\ Outstanding = {3}

(***************************************************************************)
(* Claims about Motion                                                     *)
(***************************************************************************)
Max(S) == CHOOSE x \in S : \A y \in S : x >= y
Abs(x) == IF x < 0 THEN -x ELSE x
Bit == {0, 1}

IsGetFlags(e) ==
    e.ev = "send" /\ e.data = OutExtended(46, 0, [i \in 1..14 |-> 0])
IsFlagWrite(e) ==
    /\ e.ev = "send"
    /\ e.data.cmd1 = 46 /\ e.data.cmd2 = 0
    /\ e.data.data[1] = 0 /\ e.data.data[2] = 5

\* C7: a call of update_flags sends the get-flags request; a flag write
\* (D2 = 0x05) is sent only after a get-flags request has been sent and
\* answered; and the ACK of the flag write ends in the caller's callback with
\* (true, "Motion Set Flags Success").
C7_UpdateFlagsSequence ==
    /\ \A i \in Where(trace, "call") :
          trace[i].msg = "update_flags" =>
              \E j \in (i + 1)..Len(trace) :
                  /\ IsGetFlags(trace[j])
                  /\ \A k \in (i + 1)..j : trace[k].ev \in {"start", "send"}
    /\ \A w \in Where(trace, "send") :
          IsFlagWrite(trace[w]) =>
              \E g \in 1..w : \E r \in g..w :
                  /\ IsGetFlags(trace[g])
                  /\ trace[r].ev = "reply" /\ trace[r].msg = "extended"
    /\ \A a \in Where(trace, "reply") :
          (trace[a].msg = "ack" /\ trace[a].data.data[2] = 5) =>
              /\ a < Len(trace)
              /\ trace[a + 1].ev = "callback"
              /\ trace[a + 1].ok
              /\ trace[a + 1].msg = "Motion Set Flags Success"

\* C8: when the D6 byte of a get-flags reply is the byte _change_flags writes
\* for (led_on, night_only, on_only), the flags the device object holds
\* after the reply are that triple.
ExtReplies == {i \in Where(trace, "reply") : trace[i].msg = "extended"}
C8_FlagRoundTrip ==
    ExtReplies # {} =>
        \A led \in Bit, night \in Bit, on \in Bit :
            trace[Max(ExtReplies)].data[6] = flags_value(led, night, on) =>
                <<led_on, night_only, on_only>> = <<led, night, on>>

\* C9: _set_timeout called with an integer sends D2 = 0x03 with D3 = k where,
\* for a 2842, 30 * (k + 1) <= v < 30 * (k + 2) with v the input clamped to
\* [30, 14400], and otherwise 10 * k <= v < 10 * (k + 1) with v the input
\* clamped to [10, 2400].
TimeoutByteOk(t, k) ==
    IF model # <<>> /\ model[1] = "2842"
    THEN LET v == IF t < 30 THEN 30 ELSE IF t > 14400 THEN 14400 ELSE t
         IN  30 * (k + 1) <= v /\ v < 30 * (k + 2)
    ELSE LET v == IF t < 10 THEN 10 ELSE IF t > 2400 THEN 2400 ELSE t
         IN  10 * k <= v /\ v < 10 * (k + 1)
C9_TimeoutEncoding ==
    \A i \in Where(trace, "call") :
        (trace[i].msg = "_set_timeout" /\ trace[i].data.valid) =>
            /\ i < Len(trace)
            /\ trace[i + 1].ev = "send"
            /\ trace[i + 1].data.data[2] = 3
            /\ TimeoutByteOk(trace[i].data.value, trace[i + 1].data.data[3])

\* C10: every get-flags reply is followed by exactly one low-battery signal,
\* whose payload is (volts <= threshold): volts is D12 / 10 for a 2842 and
\* D12 / 72 rounded to the nearest hundredth otherwise, the threshold is the
\* voltage last set, or 7.0 for a 2842 and 1.85 otherwise.  D12 = 133 on
\* another model with the default threshold signals true.  (Millivolts.)
VoltsOf(raw) ==
    IF model # <<>> /\ model[1] = "2842"
    THEN 100 * raw
    ELSE 10 * (CHOOSE v \in ((100 * raw) \div 72)..((100 * raw) \div 72 + 1) :
                  \/ 2 * Abs(100 * raw - 72 * v) < 72
                  \/ 2 * Abs(100 * raw - 72 * v) = 72 /\ v % 2 = 0)
ThresholdAt(p) ==
    LET S == {i \in 1..p : /\ trace[i].ev = "call"
                           /\ trace[i].msg = "set_low_battery_voltage"
                           /\ trace[i].data.given}
    IN  IF S # {} THEN trace[Max(S)].data.value
        ELSE IF model # <<>> /\ model[1] = "2842" THEN 7000 ELSE 1850
C10_LowBatterySignal ==
    /\ Cardinality(Where(trace, "signal")) = Cardinality(ExtReplies)
    /\ \A p \in ExtReplies :
          /\ p < Len(trace)
          /\ trace[p + 1].ev = "signal"
          /\ trace[p + 1].msg = "low_battery"
          /\ trace[p + 1].ok = (VoltsOf(trace[p].data[12]) <= ThresholdAt(p))
          /\ (/\ trace[p].data[12] = 133
              /\ ~(model # <<>> /\ model[1] = "2842")
              /\ ThresholdAt(p) = 1850) => trace[p + 1].ok

C10_Witness ==
    /\ model = <<"2844", "222">>
    /\ \E p \in ExtReplies :
          /\ trace[p].data[12] = 133
          /\ ThresholdAt(p) = 1850
          /\ trace[p + 1].ev = "signal" /\ trace[p + 1].ok
    /\ \E p \in ExtReplies :
          /\ trace[p].data[12] = 134
          /\ trace[p + 1].ev = "signal" /\ ~trace[p + 1].ok

\* The positions, up to p, of the calls of set_low_battery_voltage that gave
\* a voltage.
LowVoltageSets(p) ==
    {i \in 1..p : /\ trace[i].ev = "call"
                  /\ trace[i].msg = "set_low_battery_voltage"
                  /\ trace[i].data.given}

\* C11: the threshold a voltage reply is compared against is the voltage of
\* the last set_low_battery_voltage(v) before it, or 7.0 for a 2842 and 1.85
\* otherwise when none was set; and the Motion metadata holds v under
\* battery_low_voltage from that call on, whatever battery_voltage_time
\* writes the replies have made since.
C11_ThresholdOverride ==
    /\ \A p \in ExtReplies :
          /\ p < Len(trace)
          /\ trace[p + 1].ok =
                (VoltsOf(trace[p].data[12]) <=
                    (IF LowVoltageSets(p) # {}
                     THEN trace[Max(LowVoltageSets(p))].data.value
                     ELSE IF model # <<>> /\ model[1] = "2842" THEN 7000 ELSE 1850))
    /\ IF LowVoltageSets(Len(trace)) # {}
       THEN /\ "Motion" \in DOMAIN meta
            /\ "battery_low_voltage" \in DOMAIN meta["Motion"]
            /\ meta["Motion"]["battery_low_voltage"] =
                  trace[Max(LowVoltageSets(Len(trace)))].data.value
       ELSE "Motion" \in DOMAIN meta => "battery_low_voltage" \notin DOMAIN meta["Motion"]

\* A 2844 whose threshold was set to 6.9 V and that then reported 134 / 72 =
\* 1.86 V: low against 6.9, not low against the default 1.85; the reply has
\* written battery_voltage_time next to the threshold.
C11_Witness ==
    /\ model = <<"2844", "222">>
    /\ \E p \in ExtReplies :
          /\ trace[p].data[12] = 134
          /\ LowVoltageSets(p) # {}
          /\ trace[Max(LowVoltageSets(p))].data.value = 6900
          /\ trace[p + 1].ev = "signal" /\ trace[p + 1].ok
    /\ "Motion" \in DOMAIN meta
    /\ DOMAIN meta["Motion"] = {"battery_voltage_time", "battery_low_voltage"}

\* C13: a call of set_low_battery_voltage is one step that invokes the
\* caller's callback once and sends nothing: with a voltage the Motion
\* metadata then holds it under battery_low_voltage and the callback gets
\* success=true; without one the callback gets (false, "Low voltage not
\* specified.") and the metadata is as before.
C13_SetLowVoltageSync ==
    [][(/\ Len(trace') > Len(trace)
        /\ trace'[Len(trace) + 1].ev = "call"
        /\ trace'[Len(trace) + 1].msg = "set_low_battery_voltage") =>
           LET arg == trace'[Len(trace) + 1].data
               last == trace'[Len(trace')]
           IN  /\ Len(trace') = Len(trace) + 2
               /\ last.ev = "callback"
               /\ queue' = queue
               /\ IF arg.given
                  THEN /\ last.ok
                       /\ "Motion" \in DOMAIN meta'
                       /\ "battery_low_voltage" \in DOMAIN meta'["Motion"]
                       /\ meta'["Motion"]["battery_low_voltage"] = arg.value
                  ELSE /\ ~last.ok
                       /\ last.msg = "Low voltage not specified."
                       /\ meta' = meta]_vars

\* Both cases have happened: a call with a voltage and one without, each
\* answered at once, and nothing was sent.
C13_Witness ==
    /\ Len(trace) = 4
    /\ trace[1].ev = "call" /\ trace[1].msg = "set_low_battery_voltage"
    /\ trace[1].data.given /\ trace[1].data.value = 1860
    /\ trace[2].ev = "callback" /\ trace[2].ok
    /\ trace[3].ev = "call" /\ trace[3].msg = "set_low_battery_voltage"
    /\ ~trace[3].data.given
    /\ trace[4].ev = "callback" /\ ~trace[4].ok
    /\ queue = <<>>
    /\ meta["Motion"]["battery_low_voltage"] = 1860

\* C12: a wake (awake or _pop_send_queue, both of which call
\* auto_check_battery) sends the get-flags request if and only if the model
\* prefix is 2842 or 2844 and now - battery_voltage_time >= BATTERY_TIME and
\* now - last_request_time >= 300; when it sends it sets last_request_time
\* to now, and otherwise it changes nothing.
IsWake(e) == e.ev = "call" /\ e.msg \in {"awake", "_pop_send_queue"}
C12_AutoCheckBattery ==
    [][(Len(trace') > Len(trace) /\ IsWake(trace'[Len(trace) + 1])) =>
           LET last_checked == IF /\ "Motion" \in DOMAIN meta
                                  /\ "battery_voltage_time" \in DOMAIN meta["Motion"]
                               THEN meta["Motion"]["battery_voltage_time"] ELSE 0
               due == /\ model # <<>>
                      /\ model[1] \in {"2842", "2844"}
                      /\ now - last_checked >= 345600
                      /\ now - battery_request_time >= 300
           IN  IF due
               THEN /\ IsGetFlags(trace'[Len(trace) + 2])
                    /\ \A k \in (Len(trace) + 3)..Len(trace') : trace'[k].ev # "send"
                    /\ Len(queue') = Len(queue) + 1
                    /\ battery_request_time' = now
                    /\ UNCHANGED <<meta, led_on, night_only, on_only, now>>
               ELSE /\ Len(trace') = Len(trace) + 1
                    /\ UNCHANGED <<queue, devVars>>]_vars

\* A request was sent, a wake 299 s after it sent nothing, and the wake 301 s
\* after it sent the next request.
C12_Witness ==
    /\ Len(trace) = 7
    /\ IsWake(trace[1]) /\ IsGetFlags(trace[2])
    /\ trace[3].ev = "tick" /\ trace[3].data = 299
    /\ IsWake(trace[4])
    /\ trace[5].ev = "tick" /\ trace[5].data = 2
    /\ IsWake(trace[6]) /\ IsGetFlags(trace[7])
    /\ battery_request_time = now

(***************************************************************************)
(* Claims about the metadata and the Thermostat                            *)
(***************************************************************************)

\* C14: a step that writes the metadata leaves every namespace in place,
\* changes at most one namespace and in it at most one key: the other keys
\* of that namespace are still there with their values.
C14_MetadataFrame ==
    [][\E wns \in {"Motion", "thermostat"} :
       \E wk \in {"battery_voltage_time", "battery_low_voltage", "units"} :
           \A ns \in DOMAIN meta :
               /\ ns \in DOMAIN meta'
               /\ ns # wns => meta'[ns] = meta[ns]
               /\ \A k \in (DOMAIN meta[ns]) \ {wk} :
                      /\ k \in DOMAIN meta'[ns]
                      /\ meta'[ns][k] = meta[ns][k]]_vars

\* The status replies in the history, and the signals emitted in a row
\* right after position p.
StatusReplyAt == {p \in Where(trace, "reply") : trace[p].msg = "status"}
SignalsAfter(p) ==
    {i \in (p + 1)..Len(trace) : \A j \in (p + 1)..i : trace[j].ev = "signal"}
Payloads(p, name) == {trace[i].data : i \in {j \in SignalsAfter(p) : trace[j].msg = name}}
IsScenario3(p, d11) ==
    /\ trace[p].data[6] = 49 /\ trace[p].data[7] = 72 /\ trace[p].data[8] = 40
    /\ trace[p].data[9] = 0 /\ trace[p].data[10] = 220
    /\ trace[p].data[11] = d11 /\ trace[p].data[12] = 68
Scenario3Common(p) ==
    /\ \E x \in Payloads(p, "ambient_temp_change") : x[1] = 22 * x[2]
    /\ Payloads(p, "mode_change") = {"cool"}
    /\ Payloads(p, "fan_mode_change") = {"on"}
    /\ Payloads(p, "ambient_humid_change") = {40}
    /\ Payloads(p, "status_change") = {"cooling"}
    /\ Payloads(p, "hold_change") = {FALSE}
    /\ Payloads(p, "energy_change") = {FALSE}

\* C15 as stated: the status reply D6 = 0x31, D7 = 72, D8 = 40, D9..D10 =
\* 0x00DC, D11 = 0b00001001, D12 = 68 is followed by ambient_temp_change(22.0),
\* mode_change(cool), fan_mode_change(on), cool_sp_change(200 / 9),
\* heat_sp_change(20.0), ambient_humid_change(40), status_change("cooling"),
\* hold_change(false) and energy_change(false).
C15_StatusScenario ==
    \A p \in StatusReplyAt :
        IsScenario3(p, 9) =>
            /\ Scenario3Common(p)
            /\ \E x \in Payloads(p, "cool_sp_change") : 9 * x[1] = 200 * x[2]
            /\ \E x \in Payloads(p, "heat_sp_change") : x[1] = 20 * x[2]

\* C15 amended: bit 3 of D11 = 0b00001001 reports Celsius, so that reply is
\* followed by cool_sp_change(72) and heat_sp_change(68), the setpoints as
\* sent; the same reply with D11 = 0b00000001 (Fahrenheit) is followed by
\* cool_sp_change(200 / 9) and heat_sp_change(20.0).  The other seven signals
\* are as stated in both cases.
C15_StatusScenarioAmended ==
    \A p \in StatusReplyAt :
        /\ IsScenario3(p, 9) =>
              /\ Scenario3Common(p)
              /\ \A x \in Payloads(p, "cool_sp_change") : x[1] = 72 * x[2]
              /\ \A x \in Payloads(p, "heat_sp_change") : x[1] = 68 * x[2]
              /\ Payloads(p, "cool_sp_change") # {} /\ Payloads(p, "heat_sp_change") # {}
        /\ IsScenario3(p, 1) =>
              /\ Scenario3Common(p)
              /\ \A x \in Payloads(p, "cool_sp_change") : 9 * x[1] = 200 * x[2]
              /\ \A x \in Payloads(p, "heat_sp_change") : x[1] = 20 * x[2]
              /\ Payloads(p, "cool_sp_change") # {} /\ Payloads(p, "heat_sp_change") # {}

\* The reply of the scenario has arrived at a thermostat whose stored units
\* were Fahrenheit.
C15_Witness ==
    /\ Len(trace) = 13
    /\ trace[3].ev = "reply" /\ trace[3].msg = "status"
    /\ IsScenario3(3, 9)
    /\ meta["thermostat"]["units"] = 1
    /\ trace[13].ev = "callback"

\* C16: a status reply whose mode nibble is a Mode is followed by exactly
\* nine signals, one of each kind, with status_change carrying "cooling" when
\* bit 0 of D11 is set, else "heating" when bit 1 is set, else "off"; right
\* after them the caller's callback is invoked with success=true, once.
StatusSignals ==
    {"status_change", "hold_change", "energy_change", "fan_mode_change",
     "mode_change", "cool_sp_change", "ambient_humid_change",
     "ambient_temp_change", "heat_sp_change"}
C16_StatusSignals ==
    \A p \in StatusReplyAt :
        (trace[p].data[6] \div 16) \in 0..4 =>
            /\ Cardinality(SignalsAfter(p)) = 9
            /\ \A name \in StatusSignals :
                   Cardinality({i \in SignalsAfter(p) : trace[i].msg = name}) = 1
            /\ Payloads(p, "status_change") =
                   {IF trace[p].data[11] % 2 = 1 THEN "cooling"
                    ELSE IF (trace[p].data[11] \div 2) % 2 = 1 THEN "heating"
                    ELSE "off"}
            /\ Len(trace) >= p + 10
            /\ trace[p + 10].ev = "callback"
            /\ trace[p + 10].ok
            /\ Len(trace) > p + 10 => trace[p + 11].ev \notin {"callback", "ended"}

\* A reply with both the cooling and the heating bit set was reported as
\* "cooling", and the callback has run.
C16_Witness ==
    \E p \in StatusReplyAt :
        /\ trace[p].data[11] = 3
        /\ trace[p].data[6] = 32
        /\ Payloads(p, "status_change") = {"cooling"}
        /\ Len(trace) = p + 10
        /\ trace[p + 10].ev = "callback" /\ trace[p + 10].ok

\* C17: heat_sp_command and cool_sp_command send cmd1 = 0x6d and 0x6c with
\* cmd2 = round(value * 2), where value is temp_c in the device's units
\* (temp_c * 9 / 5 + 32 for Fahrenheit) limited to [0, 127]; cmd2 is in
\* 0..254; in Celsius -5.0 is sent as 0 and 200.0 as 254.
IsSetpointCall(e) == e.ev = "call" /\ e.msg \in {"heat_sp_command", "cool_sp_command"}
StoredUnits ==
    IF "thermostat" \in DOMAIN meta /\ "units" \in DOMAIN meta["thermostat"]
    THEN meta["thermostat"]["units"]
    ELSE 0
\* value * 2 as num / den, for temp_c = t / 10.
TwiceValue(t) ==
    LET v == IF StoredUnits = 0 THEN <<9 * t + 1600, 50>> ELSE <<t, 10>>
    IN  IF v[1] < 0 THEN <<0, 1>>
        ELSE IF v[1] > 127 * v[2] THEN <<254, 1>>
        ELSE <<2 * v[1], v[2]>>
C17_SetpointEncoding ==
    [][(Len(trace') > Len(trace) /\ IsSetpointCall(trace'[Len(trace) + 1])) =>
           LET t == trace'[Len(trace) + 1].data
               sent == trace'[Len(trace) + 2]
               x == TwiceValue(t)
           IN  /\ Len(trace') = Len(trace) + 2
               /\ sent.ev = "send"
               /\ sent.data.cmd1 =
                     (IF trace'[Len(trace) + 1].msg = "heat_sp_command" THEN 109 ELSE 108)
               /\ sent.data.cmd2 \in 0..254
               /\ 2 * Abs(sent.data.cmd2 * x[2] - x[1]) <= x[2]
               /\ (StoredUnits = 1 /\ t = -50) => sent.data.cmd2 = 0
               /\ t = 2000 => sent.data.cmd2 = 254]_vars

\* C18: a setpoint command with temp_c = k / 2, k in 0..100, whose ACK echoes
\* the cmd1 and cmd2 sent, is followed by the matching setpoint signal with
\* exactly temp_c when the units are Celsius and with a value within
\* 0.5 * 5 / 9 of temp_c when they are Fahrenheit.
C18_SetpointRoundTrip ==
    (/\ Len(trace) >= 3
     /\ IsSetpointCall(trace[1])
     /\ trace[3].ev = "reply" /\ trace[3].msg = "ack"
     /\ trace[3].data.cmd1 = trace[2].data.cmd1
     /\ trace[3].data.cmd2 = trace[2].data.cmd2) =>
        /\ Len(trace) >= 4
        /\ trace[4].ev = "signal"
        /\ trace[4].msg = (IF trace[1].msg = "heat_sp_command"
                           THEN "heat_sp_change" ELSE "cool_sp_change")
        /\ LET x == trace[4].data
               t == trace[1].data
           IN  IF StoredUnits = 1
               THEN 10 * x[1] = t * x[2]
               ELSE 18 * Abs(10 * x[1] - t * x[2]) <= 5 * 10 * x[2]

\* 0.5 degrees Celsius sent to a Fahrenheit thermostat: 32.9 F goes out as
\* cmd2 = 65, and the ACK is signalled as (32.5 - 32) * 5 / 9 degrees.
C18_Witness ==
    /\ Len(trace) >= 4
    /\ StoredUnits = 0
    /\ trace[1].ev = "call" /\ trace[1].msg = "heat_sp_command" /\ trace[1].data = 5
    /\ trace[2].data.cmd2 = 65
    /\ trace[3].ev = "reply" /\ trace[3].msg = "ack" /\ trace[3].data.cmd2 = 65
    /\ trace[4].ev = "signal" /\ 18 * trace[4].data[1] = 5 * trace[4].data[2]

\* The command that the reply at position p answers: replies answer the
\* requests in the order they were sent, and each request is sent by the
\* command called right before it.
RequestOf(p) ==
    LET k == Cardinality({i \in Where(trace, "reply") : i <= p})
        s == CHOOSE i \in Where(trace, "send") :
                 Cardinality({j \in Where(trace, "send") : j <= i}) = k
    IN  trace[s - 1]

\* C19: a direct NAK of a thermostat command (mode, fan, heat setpoint, cool
\* setpoint, enable_broadcast) is followed by no signal and by one completion
\* with success=false and the NAK's reason: the caller's callback for
\* enable_broadcast, which has one, and the handler's own for the others.
NakAt == {p \in Where(trace, "reply") : trace[p].msg = "nak"}
BroadcastAt ==
    {i \in Where(trace, "call") :
        /\ trace[i].msg = "handle_broadcast"
        /\ trace[i].data[1] \in {17, 19}
        /\ trace[i].data[2] \in {1, 2}}
C22_HandlerCallbackReplaced ==
    /\ \A i \in Where(trace, "start") :
          trace[i].msg = "msg" => trace[i].data.on_done = "advance"
    /\ Where(trace, "original") = {}

\* A message step was started, has completed, and the sequence has gone on
\* to its end.
C22_Witness ==
    /\ \E i \in Where(trace, "start") :
          /\ trace[i].msg = "msg"
          /\ \E j \in Where(trace, "done") : j > i /\ trace[j].id = trace[i].id
    /\ Where(trace, "callback") # {}

\* C23: a step added with add(func, ..., on_done=X) is started with on_done
\* bound to the sequence's on_done and with every other positional and
\* keyword argument as given to add; X is not among the arguments func
\* receives (so that func cannot invoke it) and the call of func does not
\* fail.
AddAt(id) == {i \in Where(trace, "add") : trace[i].id = id}
C23_AddDropsOnDone ==
    /\ \A j \in Where(trace, "start") : \A i \in AddAt(trace[j].id) :
          /\ trace[j].data.on_done = "advance"
          /\ trace[j].data.args = trace[i].data.args
          /\ DOMAIN trace[j].data.kwargs = (DOMAIN trace[i].data.kwargs) \ {"on_done"}
          /\ \A k \in DOMAIN trace[j].data.kwargs :
                trace[j].data.kwargs[k] = trace[i].data.kwargs[k]
    /\ Where(trace, "raise") = {}

\* A step added with two positional arguments, refresh="False" and an
\* on_done was started and has completed.
C23_Witness ==
    \E i \in Where(trace, "add") :
        /\ DOMAIN trace[i].data.kwargs = {"on_done", "refresh"}
        /\ \E j \in Where(trace, "start") :
              /\ trace[j].id = trace[i].id
              /\ trace[j].data.kwargs = [k \in {"refresh"} |-> "False"]
              /\ \E d \in Where(trace, "done") : trace[d].id = trace[i].id

\* C21: pair starts refresh, db_add_resp_of(1, modem, 1), db_add_ctrl_of(g,
\* modem, g) for g = 1, 2, 3, 4, 0xEF and enable_broadcast, in this order;
\* the enable_broadcast message is sent only after the seven steps before it
\* have all succeeded; a failing step's result goes to the caller at once
\* and no step is started after it; the caller is called at most once, and
\* with success only after the ACK of enable_broadcast, with the message
\* "Thermostat paired".
PairOrder ==
    <<<<"refresh", <<>>>>, <<"db_add_resp_of", <<1, "modem", 1>>>>,
      <<"db_add_ctrl_of", <<1, "modem", 1>>>>, <<"db_add_ctrl_of", <<2, "modem", 2>>>>,
      <<"db_add_ctrl_of", <<3, "modem", 3>>>>, <<"db_add_ctrl_of", <<4, "modem", 4>>>>,
      <<"db_add_ctrl_of", <<239, "modem", 239>>>>, <<"enable_broadcast", <<>>>>>>
C21_PairOrder ==
    /\ Len(Starts) <= 8
    /\ \A k \in 1..Len(Starts) :
          /\ Starts[k].data.func = PairOrder[k][1]
          /\ Starts[k].data.args = PairOrder[k][2]
          /\ k > 1 => \E j \in 1..Len(Dones) : Dones[j].id = Starts[k - 1].id /\ Dones[j].ok
    /\ \A i \in Where(trace, "send") :
          /\ trace[i].data = OutExtended(46, 0, Data14(<<0, 8>>))
          /\ Len(Starts) = 8
          /\ {Dones[j].id : j \in 1..Len(Dones)} = 1..7
          /\ \A j \in 1..Len(Dones) : Dones[j].ok
    /\ \A i \in Where(trace, "done") :
          ~trace[i].ok =>
              /\ Len(trace) = i + 1
              /\ trace[i + 1].ev = "callback"
              /\ <<trace[i + 1].ok, trace[i + 1].msg, trace[i + 1].data>>
                    = <<FALSE, trace[i].msg, trace[i].data>>
    /\ \A i \in Where(trace, "reply") :
          ~trace[i].ok =>
              /\ Len(trace) = i + 1
              /\ trace[i + 1].ev = "callback" /\ ~trace[i + 1].ok
    /\ Len(Callbacks) <= 1
    /\ \A i \in Where(trace, "callback") :
          trace[i].ok =>
              /\ trace[i].msg = "Thermostat paired"
              /\ trace[i - 1].ev = "reply" /\ trace[i - 1].msg = "ack"
              /\ Where(trace, "send") # {}

\* All eight steps succeeded and the caller was told "Thermostat paired".
C21_Witness ==
    /\ Len(Starts) = 8
    /\ Where(trace, "send") # {}
    /\ Len(Callbacks) = 1
    /\ Callbacks[1].ok /\ Callbacks[1].msg = "Thermostat paired"

\* C24: the message _change_flags sends is (0x2e, 0x00) with D1 = 0,
\* D2 = 0x05, D4..D14 = 0 and a D3 whose bit 3 is led_on, bit 2 is NOT
\* night_only, bit 1 is NOT on_only and whose other bits are 0, each flag
\* being the one given or, when none is given, the stored one.
FlagGiven(flags, name, stored) ==
    IF name \in DOMAIN flags THEN (IF flags[name] = "on" THEN 1 ELSE 0) ELSE stored
C24_FlagsByte ==
    [][(/\ Len(trace') = Len(trace) + 2
        /\ trace'[Len(trace) + 1].ev = "call"
        /\ trace'[Len(trace) + 1].msg = "_change_flags"
        /\ trace'[Len(trace) + 2].ev = "send")
       => LET flags == trace'[Len(trace) + 1].data
              m == trace'[Len(trace) + 2].data
          IN  /\ m.cmd1 = 46 /\ m.cmd2 = 0
              /\ Len(m.data) = 14
              /\ m.data[1] = 0 /\ m.data[2] = 5
              /\ \A k \in 4..14 : m.data[k] = 0
              /\ m.data[3] = 8 * FlagGiven(flags, "led_on", led_on)
                                + 4 * (1 - FlagGiven(flags, "night_only", night_only))
                                + 2 * (1 - FlagGiven(flags, "on_only", on_only))]_vars

\* led_on off, night_only on, on_only off were written as D3 = 0b0010.
C24_Witness ==
    \E i \in Where(trace, "call") :
        /\ trace[i].msg = "_change_flags"
        /\ DOMAIN trace[i].data = FlagNames
        /\ trace[i].data = [n \in FlagNames |-> IF n = "night_only" THEN "on" ELSE "off"]
        /\ Len(trace) > i
        /\ trace[i + 1].ev = "send" /\ trace[i + 1].data.data[3] = 2

\* C25: a flag that is not given is written as it was read: the bit (3 for
\* led_on, 2 for night_only, 1 for on_only) of the D3 that _change_flags
\* writes equals the same bit of the D6 of the last get-flags reply.
FlagBit == [n \in FlagNames |-> IF n = "led_on" THEN 3 ELSE IF n = "night_only" THEN 2 ELSE 1]
BitOf(x, b) == (x \div (2 ^ b)) % 2
C25_AbsentFlagsKept ==
    [][(/\ ExtReplies # {}
        /\ Len(trace') = Len(trace) + 2
        /\ trace'[Len(trace) + 1].ev = "call"
        /\ trace'[Len(trace) + 1].msg = "_change_flags"
        /\ trace'[Len(trace) + 2].ev = "send")
       => LET flags == trace'[Len(trace) + 1].data
              d3 == trace'[Len(trace) + 2].data.data[3]
              d6 == trace[Max(ExtReplies)].data[6]
          IN  \A n \in FlagNames \ DOMAIN flags :
                  BitOf(d3, FlagBit[n]) = BitOf(d6, FlagBit[n])]_vars

\* C26: when update_flags is given a flag that is no boolean, the sequence
\* is started, no flag write is sent, and the only callback the caller
\* receives is a failure whose message names an invalid flag.
InvalidMsgs(flags) ==
    {IF n = "led_on" THEN "Invalid led on."
     ELSE IF n = "night_only" THEN "Invalid night only."
     ELSE "Invalid on only." : n \in {k \in DOMAIN flags : flags[k] \notin {"on", "off"}}}
C26_InvalidFlag ==
    \A i \in Where(trace, "call") :
        (trace[i].msg = "update_flags" /\ InvalidMsgs(trace[i].data) # {}) =>
            /\ Len(trace) > i
            /\ trace[i + 1].ev = "start"
            /\ \A j \in (i + 1)..Len(trace) :
                  (\A k \in (i + 1)..j : trace[k].ev # "call") =>
                      /\ ~IsFlagWrite(trace[j])
                      /\ trace[j].ev = "callback" =>
                            ~trace[j].ok /\ trace[j].msg \in InvalidMsgs(trace[i].data)

\* The seconds that passed between the events at positions a and b.
RECURSIVE TicksIn(_, _)
TicksIn(a, b) ==
    IF a > b THEN 0
    ELSE (IF trace[a].ev = "tick" THEN trace[a].data ELSE 0) + TicksIn(a + 1, b)

\* C27: whatever the order of wakes, dequeues (also one made while the
\* automatic request is being sent) and clock advances, any two automatic
\* battery requests are at least 300 s apart.
C27_RequestsApart ==
    \A a \in Where(trace, "send") : \A b \in Where(trace, "send") :
        a < b => TicksIn(a, b) >= 300

\* A request was sent, the queue was popped while it was being sent, and
\* the next request was sent 301 s later.
C27_Witness ==
    \E a \in Where(trace, "send") : \E b \in Where(trace, "send") :
        /\ a < b
        /\ TicksIn(a, b) = 301
        /\ trace[a + 1].ev = "call" /\ trace[a + 1].data = "nested"

\* C28: after a get-flags reply processed at time t, no automatic request is
\* made before t + BATTERY_TIME, however often the device wakes; and as long
\* as no reply has arrived, a wake of a 2842 or 2844 device makes the
\* request whenever 300 s have passed since the last one.
C28_ReplyStopsRequests ==
    /\ \A p \in ExtReplies : \A b \in Where(trace, "send") :
          p < b => TicksIn(p, b) >= 345600
    /\ \A w \in Where(trace, "call") :
          (/\ IsWake(trace[w])
           /\ model # <<>> /\ model[1] \in {"2842", "2844"}
           /\ \A p \in ExtReplies : p > w
           /\ \A a \in Where(trace, "send") : a < w => TicksIn(a, w) >= 300)
          => (Len(trace) > w /\ IsGetFlags(trace[w + 1]))

\* A reply was processed, a wake one second short of four days later made
\* no request, and the wake two seconds after that made one.
C28_Witness ==
    \E p \in ExtReplies : \E w \in Where(trace, "call") : \E b \in Where(trace, "send") :
        /\ p < w /\ w < b
        /\ IsWake(trace[w]) /\ trace[w + 1].ev = "tick"
        /\ TicksIn(p, w) = 345599
        /\ TicksIn(p, b) = 345601

\* C29: the setpoints of a status reply (D7, D12) are converted with the
\* unit that bit 3 of the D11 of that same reply reports, whatever unit was
\* stored before: (val - 32) * 5 / 9 when the bit is 0, val as it is when the
\* bit is 1; after the reply the stored units are that bit.
C29_StatusUnits ==
    [][(/\ Len(trace') > Len(trace)
        /\ trace'[Len(trace) + 1].ev = "reply"
        /\ trace'[Len(trace) + 1].msg = "status")
       => LET d == trace'[Len(trace) + 1].data
              bit == BitOf(d[11], 3)
              emitted(name) ==
                  {trace'[k].data :
                      k \in {j \in (Len(trace) + 2)..Len(trace') :
                                trace'[j].ev = "signal" /\ trace'[j].msg = name}}
              as_reported(x, val) ==
                  IF bit = 0 THEN 9 * x[1] = (val - 32) * 5 * x[2]
                  ELSE x[1] = val * x[2]
          IN  /\ emitted("cool_sp_change") # {}
              /\ emitted("heat_sp_change") # {}
              /\ \A x \in emitted("cool_sp_change") : as_reported(x, d[7])
              /\ \A x \in emitted("heat_sp_change") : as_reported(x, d[12])
              /\ "thermostat" \in DOMAIN meta'
              /\ meta'["thermostat"]["units"] = bit]_vars

\* A reply that reports Fahrenheit (D11 = 0b00000001) was followed by
\* cool_sp_change(200 / 9) and the stored units are Fahrenheit.
C29_Witness ==
    \E p \in StatusReplyAt :
        /\ trace[p].data[11] = 1
        /\ \E x \in Payloads(p, "cool_sp_change") : 9 * x[1] = 200 * x[2]
        /\ meta["thermostat"]["units"] = 0

\* C30: a direct ACK of a mode, fan, heat setpoint or cool setpoint command
\* whose cmd1 is the one sent (0x6b, 0x6b, 0x6d, 0x6c) is followed by exactly
\* one signal, the command's, and by a completion with success=true; one
\* whose cmd1 differs is followed by no signal and by a completion with
\* (false, "Wrong direct ack received", None).
AckAt == {p \in Where(trace, "reply") : trace[p].msg = "ack"}
AckSignal ==
    [c \in {"mode_command", "fan_command", "heat_sp_command", "cool_sp_command"} |->
        CASE c = "mode_command" -> <<107, "mode_change">>
          [] c = "fan_command" -> <<107, "fan_mode_change">>
          [] c = "heat_sp_command" -> <<109, "heat_sp_change">>
          [] c = "cool_sp_command" -> <<108, "cool_sp_change">>]
C30_AckHandlers ==
    \A p \in AckAt :
        RequestOf(p).msg \in DOMAIN AckSignal =>
            IF trace[p].data.cmd1 = AckSignal[RequestOf(p).msg][1]
            THEN /\ Len(trace) >= p + 2
                 /\ trace[p + 1].ev = "signal"
                 /\ trace[p + 1].msg = AckSignal[RequestOf(p).msg][2]
                 /\ trace[p + 2].ev = "ended" /\ trace[p + 2].ok
                 /\ Len(trace) > p + 2 => trace[p + 3].ev \notin {"signal", "ended"}
            ELSE /\ Len(trace) >= p + 1
                 /\ trace[p + 1].ev = "ended"
                 /\ <<trace[p + 1].ok, trace[p + 1].msg, trace[p + 1].data>>
                       = <<FALSE, "Wrong direct ack received", None>>
                 /\ Len(trace) > p + 1 => trace[p + 2].ev \notin {"signal", "ended"}

\* C31: a code outside the enumerations emits no signal of its own and does
\* not stop the processing.  A status reply whose mode nibble is no Mode is
\* followed by no mode_change, by the eight other signals and by the
\* completion callback; a mode or fan ACK whose cmd1 is the one sent and whose
\* cmd2 is no ModeCommands / FanCommands value is followed by no signal and
\* by the completion callback; a broadcast of a group that is no Groups value
\* is followed by no signal.
UnknownAckAt ==
    {p \in AckAt :
        /\ trace[p].data.cmd1 = 107
        /\ \/ RequestOf(p).msg = "mode_command" /\ trace[p].data.cmd2 \notin {9, 4, 5, 6, 10}
           \/ RequestOf(p).msg = "fan_command" /\ trace[p].data.cmd2 \notin {7, 8}}
C31_UnknownCodes ==
    /\ \A p \in StatusReplyAt :
          trace[p].data[6] \div 16 \notin 0..4 =>
              /\ Payloads(p, "mode_change") = {}
              /\ \A name \in StatusSignals \ {"mode_change"} : Payloads(p, name) # {}
              /\ \E i \in (p + 1)..Len(trace) :
                    /\ trace[i].ev = "callback"
                    /\ \A j \in (p + 1)..(i - 1) : trace[j].ev = "signal"
    /\ \A p \in UnknownAckAt :
          /\ Len(trace) > p
          /\ trace[p + 1].ev = "ended"
    /\ \A i \in Where(trace, "call") :
          (/\ trace[i].msg = "handle_broadcast"
           /\ trace[i].data[2] \notin {1, 2, 3, 4, 239})
          => (Len(trace) > i => trace[i + 1].ev # "signal")

\* C32: a broadcast whose group is neither 0x01 nor 0x02, or whose cmd1 is
\* neither 0x11 nor 0x13, is passed to Base.handle_broadcast exactly once and
\* emits no signal.
C32_OtherBroadcastsRouted ==
    \A i \in Where(trace, "call") :
        (/\ trace[i].msg = "handle_broadcast"
         /\ ~(trace[i].data[1] \in {17, 19} /\ trace[i].data[2] \in {1, 2}))
        => /\ Len(trace) > i
           /\ trace[i + 1].ev = "routed"
           /\ trace[i + 1].data = trace[i].data
           /\ Len(trace) > i + 1 => trace[i + 2].ev \notin {"routed", "signal"}

\* C33: for every integer timeout and either model family _set_timeout
\* computes a D3 in 0..255: the call builds the message and sends it, and no
\* exception leaves it.
C33_TimeoutByteRange ==
    /\ Where(trace, "raise") = {}
    /\ \A i \in Where(trace, "call") :
          (trace[i].msg = "_set_timeout" /\ trace[i].data.valid) =>
              /\ i < Len(trace)
              /\ trace[i + 1].ev = "send"
              /\ Len(trace[i + 1].data.data) = 14
              /\ trace[i + 1].data.data[3] \in 0..255

\* C34: once the sequence has invoked the caller's callback, it starts no
\* further step and does not invoke the callback again, whatever completion
\* callbacks arrive afterwards.
C34_NoResumeAfterTerminal ==
    /\ Cardinality(Where(trace, "callback")) <= 1
    /\ \A i \in Where(trace, "callback") : \A j \in Where(trace, "start") : j < i

\* C35: every payload of status_change, from a status reply or from a
\* broadcast, is one of "cooling", "heating" and "off".
C35_StatusVocabulary ==
    \A i \in Where(trace, "signal") :
        trace[i].msg = "status_change" => trace[i].data \in {"cooling", "heating", "off"}

====
